---- MODULE Spec2Model ----
(***************************************************************************)
(* Model of lfpweather-forecast-inference-api: the cache-aside handlers    *)
(* GetForecastSummary and GetForcastPeriodsInformation, the NWS adapter,   *)
(* the join of annotations onto forecast periods, and the Dragonfly        *)
(* (redis) cache they read and write.                                      *)
(*                                                                         *)
(* Byte strings (cache values, inference replies, response bodies) are     *)
(* modelled as JSON documents or as one of two non-JSON texts; encoding    *)
(* (json.Marshal) and decoding (json.Unmarshal) are modelled by what       *)
(* encoding/json does with them.                                           *)
(***************************************************************************)
EXTENDS Integers, Sequences, FiniteSets, TLC

(***************************************************************************)
(* Bounds of the model                                                     *)
(***************************************************************************)
\* number of requests of one behaviour; any of them may overlap
NumRequests == 2
\* the clock runs from 1 to MaxTime
MaxTime == 2
\* longest period list and annotation list explored for the join
MaxPeriods == 3
MaxExamples == 2
MaxCalls == 2
MaxAnnotations == 2

(***************************************************************************)
(* Program constants                                                       *)
(***************************************************************************)
\* forecast.go:61  GetSimplifiedForecastNPeriods("SEW/127,75", 3)
SummaryPeriodCount == 3
\* forecast.go:283 / nws.go:104  the "all periods" value of n
AllPeriods == -1
StatusOK == 200
StatusInternalServerError == 500
StatusUnauthorized == 401

Products == {"forecast-summary", "forecast-periods-information"}

(***************************************************************************)
(* JSON documents.  A text is either not JSON at all ("empty", "garbage")  *)
(* or a JSON value: null, a string, a number, an array or an object whose  *)
(* members are a function from key to value.                               *)
(***************************************************************************)
EmptyText == [k |-> "empty"]
GarbageText == [k |-> "garbage"]
JNull == [k |-> "null"]
JStr(s) == [k |-> "str", v |-> s]
JNum(n) == [k |-> "num", n |-> n]
JArr(items) == [k |-> "arr", items |-> items]
JObj(f) == [k |-> "obj", f |-> f]

\* json.Valid: the syntax check json.Unmarshal runs before it stores anything
IsJSON(text) == text.k \notin {"empty", "garbage"}

\* time.Time <-> RFC 3339 text.  Instant 0 is the zero time.Time.
TimeStrings == << "0001-01-01T00:00:00Z", "2024-06-08T20:00:00-07:00",
                  "2024-06-09T06:00:00-07:00", "2024-06-09T18:00:00-07:00",
                  "2024-06-10T06:00:00-07:00", "2024-06-10T18:00:00-07:00",
                  "2024-06-11T06:00:00-07:00", "2024-06-11T18:00:00-07:00" >>
FormatTime(t) == TimeStrings[t + 1]
IsTimeString(s) == \E i \in 1..Len(TimeStrings) : TimeStrings[i] = s
ParseTime(s) == (CHOOSE i \in 1..Len(TimeStrings) : TimeStrings[i] = s) - 1

Result(err, v) == [err |-> err, v |-> v]

\* One struct field of Go type string decoded from member `key` of object f.
\* A missing member and a null leave the field alone; a value of another
\* JSON type is an UnmarshalTypeError: the field is skipped, decoding goes on.
DecodeString(f, key, old) ==
    IF key \notin DOMAIN f THEN Result(FALSE, old)
    ELSE CASE f[key].k = "str" -> Result(FALSE, f[key].v)
           [] f[key].k = "null" -> Result(FALSE, old)
           [] OTHER -> Result(TRUE, old)

\* A field of Go type int.
DecodeInt(f, key, old) ==
    IF key \notin DOMAIN f THEN Result(FALSE, old)
    ELSE CASE f[key].k = "num" -> Result(FALSE, f[key].n)
           [] f[key].k = "null" -> Result(FALSE, old)
           [] OTHER -> Result(TRUE, old)

\* DecodeTime as it would be were the member never matched to the field
DecodeTimeUnmatched(f, key, old) == Result(FALSE, old)

\* A field of Go type time.Time (Time.UnmarshalJSON).
DecodeTime(f, key, old) ==
    IF key \notin DOMAIN f THEN Result(FALSE, old)
    ELSE CASE f[key].k = "str" /\ IsTimeString(f[key].v) -> Result(FALSE, ParseTime(f[key].v))
           [] f[key].k = "null" -> Result(FALSE, old)
           [] OTHER -> Result(TRUE, old)

(***************************************************************************)
(* Go slices: nil and empty are different values to encoding/json.         *)
(***************************************************************************)
NilSlice == [nil |-> TRUE, e |-> <<>>]
MakeSlice(e) == [nil |-> FALSE, e |-> e]

(***************************************************************************)
(* ForecastSummaryResponse (forecast.go:23-27)                             *)
(***************************************************************************)
ZeroForecastSummaryResponse == [Summary |-> "", Icon |-> "", LastUpdated |-> 0]

MarshalSummary(fsr) ==
    JObj([summary |-> JStr(fsr.Summary),
          icon |-> JStr(fsr.Icon),
          last_updated |-> JStr(FormatTime(fsr.LastUpdated))])

\* json.Unmarshal(text, &fsr) with fsr holding `into` before the call.
UnmarshalSummary(text, into) ==
    IF ~IsJSON(text) THEN Result(TRUE, into)
    ELSE IF text.k = "null" THEN Result(FALSE, into)
    ELSE IF text.k # "obj" THEN Result(TRUE, into)
    ELSE LET s == DecodeString(text.f, "summary", into.Summary)
             i == DecodeString(text.f, "icon", into.Icon)
             t == DecodeTime(text.f, "last_updated", into.LastUpdated)
         IN  Result(s.err \/ i.err \/ t.err,
                    [Summary |-> s.v, Icon |-> i.v, LastUpdated |-> t.v])

(***************************************************************************)
(* GetForecastPeriodsInformation (forecast.go:209-214): one annotation     *)
(***************************************************************************)
ZeroGetForecastPeriodsInformation ==
    [Name |-> "", TimeOfDay |-> "", Icon |-> "", Beaufort |-> ""]

DecodeAnnotation(doc) ==
    LET z == ZeroGetForecastPeriodsInformation IN
    IF doc.k = "null" THEN Result(FALSE, z)
    ELSE IF doc.k # "obj" THEN Result(TRUE, z)
    ELSE LET n == DecodeString(doc.f, "name", z.Name)
             t == DecodeString(doc.f, "time_of_day", z.TimeOfDay)
             i == DecodeString(doc.f, "icon", z.Icon)
             b == DecodeString(doc.f, "beaufort", z.Beaufort)
         IN  Result(n.err \/ t.err \/ i.err \/ b.err,
                    [Name |-> n.v, TimeOfDay |-> t.v, Icon |-> i.v, Beaufort |-> b.v])

\* json.Unmarshal(text, &fpi) with fpi a []GetForecastPeriodsInformation
UnmarshalAnnotations(text, into) ==
    IF ~IsJSON(text) THEN Result(TRUE, into)
    ELSE IF text.k = "null" THEN Result(FALSE, NilSlice)
    ELSE IF text.k # "arr" THEN Result(TRUE, into)
    ELSE LET d == [n \in 1..Len(text.items) |-> DecodeAnnotation(text.items[n])]
         IN  Result(\E n \in 1..Len(text.items) : d[n].err,
                    MakeSlice([n \in 1..Len(text.items) |-> d[n].v]))

(***************************************************************************)
(* JoinedForecastPeriodsInformation and the Breakdown response             *)
(* (forecast.go:216-249)                                                   *)
(***************************************************************************)
ZeroJoinedForecastPeriodsInformation ==
    [Name |-> "", TimeOfDay |-> "", Icon |-> "", Beaufort |-> "",
     DetailedForecast |-> "", ShortForecast |-> "", StartTime |-> 0, EndTime |-> 0,
     Temperature |-> 0, WindSpeed |-> "", WindDirection |-> ""]

JoinForecastPeriodsInformation(fpi, period) ==
    [Name |-> fpi.Name,
     TimeOfDay |-> fpi.TimeOfDay,
     Icon |-> fpi.Icon,
     Beaufort |-> fpi.Beaufort,
     DetailedForecast |-> period.DetailedForecast,
     ShortForecast |-> period.ShortForecast,
     StartTime |-> period.StartTime,
     EndTime |-> period.EndTime,
     Temperature |-> period.Temperature,
     WindSpeed |-> period.WindSpeed,
     WindDirection |-> period.WindDirection]

MarshalJoined(j) ==
    JObj([name |-> JStr(j.Name),
          time_of_day |-> JStr(j.TimeOfDay),
          icon |-> JStr(j.Icon),
          beaufort |-> JStr(j.Beaufort),
          detailed_forecast |-> JStr(j.DetailedForecast),
          short_forecast |-> JStr(j.ShortForecast),
          start_time |-> JStr(FormatTime(j.StartTime)),
          end_time |-> JStr(FormatTime(j.EndTime)),
          temperature |-> JNum(j.Temperature),
          wind_speed |-> JStr(j.WindSpeed),
          wind_direction |-> JStr(j.WindDirection)])

DecodeJoined(doc) ==
    LET z == ZeroJoinedForecastPeriodsInformation IN
    IF doc.k = "null" THEN Result(FALSE, z)
    ELSE IF doc.k # "obj" THEN Result(TRUE, z)
    ELSE LET f == doc.f
             a == DecodeString(f, "name", z.Name)
             b == DecodeString(f, "time_of_day", z.TimeOfDay)
             c == DecodeString(f, "icon", z.Icon)
             d == DecodeString(f, "beaufort", z.Beaufort)
             e == DecodeString(f, "detailed_forecast", z.DetailedForecast)
             g == DecodeString(f, "short_forecast", z.ShortForecast)
             h == DecodeTime(f, "start_time", z.StartTime)
             i == DecodeTime(f, "end_time", z.EndTime)
             j == DecodeInt(f, "temperature", z.Temperature)
             l == DecodeString(f, "wind_speed", z.WindSpeed)
             m == DecodeString(f, "wind_direction", z.WindDirection)
         IN  Result(a.err \/ b.err \/ c.err \/ d.err \/ e.err \/ g.err \/ h.err
                      \/ i.err \/ j.err \/ l.err \/ m.err,
                    [Name |-> a.v, TimeOfDay |-> b.v, Icon |-> c.v, Beaufort |-> d.v,
                     DetailedForecast |-> e.v, ShortForecast |-> g.v,
                     StartTime |-> h.v, EndTime |-> i.v, Temperature |-> j.v,
                     WindSpeed |-> l.v, WindDirection |-> m.v])

ZeroGetForecastPeriodsInformationResponse == [Periods |-> NilSlice, LastUpdated |-> 0]

MarshalBreakdown(r) ==
    JObj([periods |-> IF r.Periods.nil THEN JNull
                      ELSE JArr([n \in 1..Len(r.Periods.e) |-> MarshalJoined(r.Periods.e[n])]),
          last_updated |-> JStr(FormatTime(r.LastUpdated))])

\* The member "periods" decoded into a []JoinedForecastPeriodsInformation
DecodePeriods(f, old) ==
    IF "periods" \notin DOMAIN f THEN Result(FALSE, old)
    ELSE LET p == f["periods"] IN
         CASE p.k = "null" -> Result(FALSE, NilSlice)
           [] p.k = "arr" ->
                LET d == [n \in 1..Len(p.items) |-> DecodeJoined(p.items[n])]
                IN  Result(\E n \in 1..Len(p.items) : d[n].err,
                           MakeSlice([n \in 1..Len(p.items) |-> d[n].v]))
           [] OTHER -> Result(TRUE, old)

\* json.Unmarshal(text, &fpi) with fpi a GetForecastPeriodsInformationResponse
UnmarshalBreakdown(text, into) ==
    IF ~IsJSON(text) THEN Result(TRUE, into)
    ELSE IF text.k = "null" THEN Result(FALSE, into)
    ELSE IF text.k # "obj" THEN Result(TRUE, into)
    ELSE LET p == DecodePeriods(text.f, into.Periods)
             t == DecodeTime(text.f, "last_updated", into.LastUpdated)
         IN  Result(p.err \/ t.err, [Periods |-> p.v, LastUpdated |-> t.v])

(***************************************************************************)
(* The join loop of GetForcastPeriodsInformation (forecast.go:423-430)     *)
(***************************************************************************)
\* JoinOne as it would be were the inner loop left at the first match
JoinOneFirstMatch(period, fpi) ==
    LET hits == { j \in 1..Len(fpi) : fpi[j].Name = period.Name } IN
    IF hits = {} THEN <<>>
    ELSE <<JoinForecastPeriodsInformation(fpi[CHOOSE j \in hits : \A k \in hits : j <= k], period)>>

RECURSIVE JoinOne(_, _)
\* the inner loop: the entries one period contributes, in annotation order
JoinOne(period, fpi) ==
    IF fpi = <<>> THEN <<>>
    ELSE (IF period.Name = Head(fpi).Name
          THEN <<JoinForecastPeriodsInformation(Head(fpi), period)>>
          ELSE <<>>) \o JoinOne(period, Tail(fpi))

RECURSIVE JoinPeriods(_, _)
\* the outer loop over the source's periods
JoinPeriods(periods, fpi) ==
    IF periods = <<>> THEN <<>>
    ELSE JoinOne(Head(periods), fpi) \o JoinPeriods(Tail(periods), fpi)

(***************************************************************************)
(* The NWS adapter (nws.go)                                                *)
(***************************************************************************)
\* forecastResponeToSimplifiedForecastPeriods: keeps eight of a period's fields
SimplifyPeriod(period) ==
    [DetailedForecast |-> period.DetailedForecast,
     ShortForecast |-> period.ShortForecast,
     StartTime |-> period.StartTime,
     EndTime |-> period.EndTime,
     Temperature |-> period.Temperature,
     WindSpeed |-> period.WindSpeed,
     WindDirection |-> period.WindDirection,
     Name |-> period.Name]

forecastResponeToSimplifiedForecastPeriods(forecast) ==
    [n \in 1..Len(forecast) |-> SimplifyPeriod(forecast[n])]

\* capacity of the slice the append loop leaves behind (64-bit build: the
\* element is 136 bytes, growth doubles and rounds up to a size class)
RECURSIVE SliceCap(_)
SliceCap(len) ==
    IF len <= 2 THEN len
    ELSE LET half == SliceCap((len + 1) \div 2) IN 2 * half

\* GetSimplifiedForecastNPeriods: fetch is the outcome of GetForecast,
\* [err |-> TRUE] or [err |-> FALSE, periods |-> the document's periods].
\* The result is an error, a panic (slice bounds out of range) or a list.
GetSimplifiedForecastNPeriods(fetch, n) ==
    IF fetch.err THEN [kind |-> "err", periods |-> <<>>]
    ELSE LET all == forecastResponeToSimplifiedForecastPeriods(fetch.periods) IN
         IF n = AllPeriods THEN [kind |-> "ok", periods |-> all]
         ELSE IF n > SliceCap(Len(all)) THEN [kind |-> "panic", periods |-> <<>>]
         ELSE [kind |-> "ok",
               periods |-> [i \in 1..n |-> IF i <= Len(all) THEN all[i]
                                           ELSE [DetailedForecast |-> "", ShortForecast |-> "",
                                                 StartTime |-> 0, EndTime |-> 0, Temperature |-> 0,
                                                 WindSpeed |-> "", WindDirection |-> "", Name |-> ""]]]

(***************************************************************************)
(* The prompt (forecast.go:458-482).  A string is the sequence of its      *)
(* pieces: a literal of the source is one piece, "\n" is one piece.        *)
(***************************************************************************)
NL == "\n"

\* multiShotWrapper: the loop body, one example
WrapExample(m) ==
    <<"<example>", "input: ">> \o m.Input \o <<NL, "output: ">> \o m.Output \o <<"</example>">>

RECURSIVE WrapExamples(_)
\* multiShotWrapper: the range loop, in slice order
WrapExamples(ms) ==
    IF ms = <<>> THEN <<>>
    ELSE WrapExample(Head(ms)) \o WrapExamples(Tail(ms))

\* multiShotWrapper as it would be were the examples written last first
multiShotWrapperReversed(ms) ==
    <<"<examples>">> \o WrapExamples([i \in 1..Len(ms) |-> ms[Len(ms) + 1 - i]]) \o <<"</examples>">>

multiShotWrapper(ms) == <<"<examples>">> \o WrapExamples(ms) \o <<"</examples>">>

\* fmt.Sprintf("%s\n\n%s\n\n%s", prompt, multiShotWrapper(ms), fmt.Sprintf("input: %s", inputData))
buildFinalPrompt(prompt, ms, inputData) ==
    prompt \o <<NL, NL>> \o multiShotWrapper(ms) \o <<NL, NL>> \o (<<"input: ">> \o inputData)

(***************************************************************************)
(* Inputs of the model: what the upstream source, the inference service    *)
(* and a foreign writer of the cache can hand to the program.              *)
(***************************************************************************)
RawPeriod(number, name, start, end, day, temp, ws, wd, short, detailed) ==
    [Number |-> number, Name |-> name, StartTime |-> start, EndTime |-> end,
     IsDaytime |-> day, Temperature |-> temp, TemperatureUnit |-> "F",
     WindSpeed |-> ws, WindDirection |-> wd, Icon |-> "https://api.weather.gov/icons",
     ShortForecast |-> short, DetailedForecast |-> detailed]

pTonight == RawPeriod(1, "Tonight", 1, 2, FALSE, 54, "2 mph", "E",
                      "Mostly Cloudy", "Mostly cloudy, with a low around 54.")
pSunday == RawPeriod(2, "Sunday", 2, 3, TRUE, 74, "1 to 6 mph", "SW",
                     "Mostly Sunny", "Mostly sunny. High near 74.")
pSundayNight == RawPeriod(3, "Sunday Night", 3, 4, FALSE, 51, "2 to 6 mph", "W",
                          "Mostly Cloudy", "Mostly cloudy, with a low around 51.")
\* a later period that carries a name already used
pSundayAgain == RawPeriod(4, "Sunday", 4, 5, TRUE, 70, "5 mph", "N",
                          "Sunny", "Sunny, with a high near 70.")

\* properties.periods of the documents the source may serve
UpstreamForecasts ==
    { <<pTonight, pSunday, pSundayNight, pSundayAgain>>,
      <<pTonight, pSunday>>,
      <<>> }

\* values CACHE_RESULTS_DURATION can be given (part_000:25); 0 stands for
\* every duration that is not positive
CacheResultsDurations == {0, 1, 2}

Annotation(name, tod, icon, beaufort) ==
    JObj([name |-> JStr(name), time_of_day |-> JStr(tod),
          icon |-> JStr(icon), beaufort |-> JStr(beaufort)])

aTonight == Annotation("Tonight", "night", "cloud-moon", "Light air")
aSunday == Annotation("Sunday", "day", "cloud-sun", "Light breeze")
aSundayNight == Annotation("Sunday Night", "night", "cloud-moon", "Light breeze")
aSundayWindy == Annotation("Sunday", "day", "wind", "Fresh breeze")
aLowercase == Annotation("tonight", "night", "cloud", "Calm")

\* texts the model may answer with, per product
ReplyTexts(product) ==
    IF product = "forecast-summary"
    THEN { JObj([summary |-> JStr("Mostly cloudy tonight, sunny on Sunday."),
                 icon |-> JStr("cloud-moon")]),
           JObj([summary |-> JStr("Clouds tonight, then sun."),
                 icon |-> JStr("cloud-sun")]),
           JNull,
           GarbageText,
           JArr(<<>>) }
    ELSE { JArr(<<aTonight, aSunday, aSundayNight>>),
           JArr(<<aSundayNight, aLowercase, aTonight>>),
           JArr(<<aSunday, aSundayWindy, aSunday>>),
           JNull,
           GarbageText,
           JObj([name |-> JStr("Tonight")]) }

\* every sequence over S of length at most n
BoundedSeq(S, n) == UNION { [1..m -> S] : m \in 0..n }

\* every period list and every annotation list up to the bounds
AllForecasts == BoundedSeq({pTonight, pSunday, pSundayNight, pSundayAgain}, MaxPeriods)

AllAnnotationReplies ==
    { JArr(a) : a \in BoundedSeq({aTonight, aSunday, aSundayNight, aSundayWindy, aLowercase},
                                 MaxAnnotations) }

\* a JSON object another writer left under a product key: it decodes only
\* in part into either product
ForeignObject ==
    JObj([summary |-> JNum(7), icon |-> JStr("sun"), periods |-> JStr("none"),
          last_updated |-> JStr(FormatTime(1)), comment |-> JStr("v0")])

ForeignTexts == {EmptyText, GarbageText, ForeignObject}

(***************************************************************************)
(* State                                                                   *)
(***************************************************************************)
VARIABLES
    now,        \* the clock (time.Now and the cache's clock)
    duration,   \* DragonflyClient.CacheResultsDuration
    upstream,   \* the periods the source currently serves
    replies,    \* product -> the texts the inference service may answer with
    clients,    \* how many requests arrive
    auth,       \* Config.AuthenticationEnabled and Config.APIKeys
    cache,      \* the key-value cache: product key -> entry
    req,        \* request -> the state of the handler serving it
    built       \* the arguments buildFinalPrompt is called with, and its results

vars == <<now, duration, upstream, replies, clients, auth, cache, req, built>>

Requests == 1..NumRequests

\* An entry of the cache.  expires = 0: the key has no expiry.  by and at
\* record which request wrote the entry and when (by = 0: a foreign writer).
NoEntry == [present |-> FALSE, val |-> EmptyText, expires |-> 0, by |-> 0, at |-> 0]

ForeignEntry(text) == [NoEntry EXCEPT !.present = TRUE, !.val = text]

\* redis: a key whose expiry has passed is gone
Live(entry) == entry.present /\ (entry.expires = 0 \/ now < entry.expires)

\* The handler before its first step.  Beside the handler's own variables
\* the record keeps what the request met: after (the requests that had
\* returned when it arrived), got (the result of the cache read, the entry
\* the key held then, the time of a hit), fetchFailed and answer (the
\* failure of the source fetch, the outcome of the inference call if it
\* was made), stamp (the time.Now() of the miss path), steps (the steps the
\* handler went through), header (the X-API-Key value the middleware read,
\* if it ran), ctxDone (timeoutCtx is done: the client went away or the
\* handler timeout passed).
Idle ==
    [pc |-> "idle", product |-> "forecast-summary", after |-> {},
     got |-> [res |-> "none", entry |-> NoEntry, at |-> 0],
     path |-> "none", fetchFailed |-> FALSE, periods |-> <<>>,
     answer |-> <<>>, stamp |-> 0,
     out |-> EmptyText, wrote |-> "none",
     status |-> 0, title |-> <<>>, contentType |-> "", body |-> EmptyText,
     steps |-> <<>>, log |-> <<>>, reads |-> 0, fetches |-> 0, infers |-> 0, writes |-> 0,
     responses |-> 0,
     header |-> [checked |-> FALSE, given |-> <<>>], ctxDone |-> FALSE]

\* buildFinalPrompt has not been called; the handlers' own calls pass
\* literals of the source and are not recorded
NotBuilt == [prompt |-> <<>>, ms |-> <<>>, inputData |-> <<>>, results |-> <<>>]

\* AUTHENTICATION_ENABLED=false: main installs no middleware
AuthDisabled == [enabled |-> FALSE, keys |-> <<>>]

\* The configurations and surroundings a behaviour starts from: every cache
\* duration and every upstream document with an empty cache, and every
\* foreign text under either key.
Init ==
    /\ now = 1
    /\ built = NotBuilt
    /\ auth = AuthDisabled
    /\ req = [r \in Requests |-> Idle]
    /\ replies = [p \in Products |-> ReplyTexts(p)]
    /\ clients = NumRequests
    /\ \/ /\ duration \in CacheResultsDurations
          /\ upstream = <<pTonight, pSunday, pSundayNight, pSundayAgain>>
          /\ cache = [p \in Products |-> NoEntry]
       \/ /\ duration = 1
          /\ upstream \in UpstreamForecasts
          /\ cache = [p \in Products |-> NoEntry]
       \/ /\ duration = 1
          /\ upstream = <<pTonight, pSunday, pSundayNight, pSundayAgain>>
          /\ \E q \in Products, t \in ForeignTexts :
                cache = [p \in Products |-> IF p = q THEN ForeignEntry(t) ELSE NoEntry]

\* One request, with every period list the source can serve and every
\* annotation list the inference service can answer with, up to the bounds.
InitJoin ==
    /\ now = 1
    /\ built = NotBuilt
    /\ auth = AuthDisabled
    /\ req = [r \in Requests |-> Idle]
    /\ replies = [p \in Products |-> IF p = "forecast-summary" THEN ReplyTexts(p)
                                      ELSE AllAnnotationReplies]
    /\ clients = 1
    /\ duration = 1
    /\ upstream \in AllForecasts
    /\ cache = [p \in Products |-> NoEntry]

\* outcomes of AnthropicClient.Messages.New: an error, or a message whose
\* Content holds no block or one text block
InferenceOutcomes(product) ==
    { [err |-> TRUE, content |-> <<>>], [err |-> FALSE, content |-> <<>>] }
      \cup { [err |-> FALSE, content |-> <<t>>] : t \in replies[product] }

(***************************************************************************)
(* The handlers, one action per blocking call: each action runs the        *)
(* handler from one call to the next (or to its return)                    *)
(***************************************************************************)
IsSummary(product) == product = "forecast-summary"

\* the product's name in the handlers' titles and log lines
ProductName(product) ==
    IF IsSummary(product) THEN "forecast summary" ELSE "forecast periods information"

\* the handler goes through one more step of its path
Step(h, name) == [h EXCEPT !.steps = Append(h.steps, name)]

\* rfc9457 ... ServeHTTP(w, r); return
ServeError(h, status, title) ==
    [Step(h, "serve_error")
        EXCEPT !.pc = "done", !.status = status, !.title = title,
               !.contentType = "application/problem+json",
               !.responses = h.responses + 1]

\* w.Header().Set / w.WriteHeader(http.StatusOK) / w.Write(body)
ServeOK(h, body) ==
    [Step(h, "serve")
        EXCEPT !.pc = "done", !.status = StatusOK, !.contentType = "application/json",
               !.body = body, !.responses = h.responses + 1]

Logged(h, msg) == [h EXCEPT !.log = Append(h.log, msg)]

\* a request arrives and its handler starts (requests are numbered in the
\* order they arrive)
Arrive(r, product) ==
    /\ req[r].pc = "idle"
    /\ ~auth.enabled
    /\ r <= clients
    /\ \A q \in Requests : q < r => req[q].pc # "idle"
    /\ req' = [req EXCEPT ![r] = [Idle EXCEPT !.pc = "get", !.product = product,
                                             !.after = {q \in Requests : req[q].pc \in {"done", "panic"}}]]
    /\ UNCHANGED <<now, duration, upstream, replies, clients, auth, cache, built>>

\* r.Header.Get("X-API-Key"): "" when the request carries no such header
HeaderGet(xApiKey) == IF xApiKey = <<>> THEN "" ELSE xApiKey[1]

\* the loop over amc.APIKeys (middleware.go:44-50)
ValidKey(apiKey, keys) == \E i \in 1..Len(keys) : apiKey = keys[i]

\* AuthenticationMiddleware, installed on the /api subrouter when
\* authentication is enabled: a request arrives with the X-API-Key header
\* xApiKey (<<>>: none); it is answered 401 or handed to the handler
AuthenticationMiddleware(r, product, xApiKey) ==
    LET h == [Idle EXCEPT !.product = product,
                          !.after = {q \in Requests : req[q].pc \in {"done", "panic"}},
                          !.header = [checked |-> TRUE, given |-> xApiKey]]
    IN  /\ req[r].pc = "idle"
        /\ auth.enabled
        /\ r <= clients
        /\ \A q \in Requests : q < r => req[q].pc # "idle"
        /\ req' = [req EXCEPT ![r] =
                     IF ValidKey(HeaderGet(xApiKey), auth.keys)
                     THEN [h EXCEPT !.pc = "get"]
                     ELSE ServeError(h, StatusUnauthorized, <<"invalid api key">>)]
        /\ UNCHANGED <<now, duration, upstream, replies, clients, auth, cache, built>>

\* values API_KEYS can be given (part_000:19): the list is the value split
\* at commas, so "k1," gives the keys "k1" and ""
APIKeyLists == { <<>>, <<"k1">>, <<"k1", "k2">>, <<"k1", "">> }

\* the X-API-Key header of a request: none, or one value
XAPIKeyHeaders == { <<>>, <<"k1">>, <<"k2">>, <<"k3">>, <<"">> }

\* timeoutCtx becomes done while the handler runs: the client went away
\* (r.Context() is canceled) or ah.Timeout has passed
Cancel(r) ==
    /\ req[r].pc \in {"get", "fetch", "infer", "set"}
    /\ ~req[r].ctxDone
    /\ req' = [req EXCEPT ![r].ctxDone = TRUE]
    /\ UNCHANGED <<now, duration, upstream, replies, clients, auth, cache, built>>

\* the cached text decoded into the product and encoded again
\* (forecast.go:37-43 and 259-265)
HitDecode(product, text) ==
    IF IsSummary(product) THEN UnmarshalSummary(text, ZeroForecastSummaryResponse)
    ELSE UnmarshalBreakdown(text, ZeroGetForecastPeriodsInformationResponse)

\* HitBody as it would be were the product stamped again when served
HitBodyRestamped(product, text) ==
    IF IsSummary(product)
    THEN MarshalSummary([HitDecode(product, text).v EXCEPT !.LastUpdated = now])
    ELSE MarshalBreakdown([HitDecode(product, text).v EXCEPT !.LastUpdated = now])

HitBody(product, text) ==
    IF IsSummary(product) THEN MarshalSummary(HitDecode(product, text).v)
    ELSE MarshalBreakdown(HitDecode(product, text).v)

\* ServeHit as it would be were the bytes read from the cache written back
ServeHitVerbatim(h, entry) ==
    LET h1 == Step([h EXCEPT !.path = "hit",
                             !.got = [res |-> "val", entry |-> entry, at |-> now]], "decode")
        h2 == IF HitDecode(h.product, entry.val).err
              THEN Logged(h1, <<"could not unmarshal", ProductName(h.product), "from cache">>)
              ELSE h1
    IN  ServeOK(h2, entry.val)

\* the else-if branch: the hit is served
ServeHit(h, entry) ==
    LET h1 == Step([h EXCEPT !.path = "hit",
                             !.got = [res |-> "val", entry |-> entry, at |-> now]], "decode")
        h2 == IF HitDecode(h.product, entry.val).err
              THEN Logged(h1, <<"could not unmarshal", ProductName(h.product), "from cache">>)
              ELSE h1
    IN  ServeOK(h2, HitBody(h.product, entry.val))

\* ReadFailed as it would be were a failed read fatal to the request
ReadFailedAborts(h, entry) ==
    ServeError([Logged(h, <<"could not get", ProductName(h.product), "from cache">>)
                   EXCEPT !.path = "miss", !.got.res = "err",
                          !.got.entry = IF Live(entry) THEN entry ELSE NoEntry],
               StatusInternalServerError, <<"failed to read", ProductName(h.product)>>)

\* the first branch: the read failed with an error that is not redis.Nil
ReadFailed(h, entry) ==
    [Logged(h, <<"could not get", ProductName(h.product), "from cache">>)
        EXCEPT !.pc = "fetch", !.path = "miss", !.got.res = "err",
               !.got.entry = IF Live(entry) THEN entry ELSE NoEntry]

\* neither branch: redis.Nil, or a value that is the empty string
ReadMissed(h, entry) ==
    [h EXCEPT !.pc = "fetch", !.path = "miss",
              !.got.res = IF Live(entry) THEN "empty" ELSE "nil"]

\* CacheGet as it would be were an empty value served as a hit
CacheGetServingEmpty(r, failed) ==
    LET h == Step([req[r] EXCEPT !.reads = @ + 1], "check_cache")
        entry == cache[h.product]
    IN  /\ req[r].pc = "get"
        /\ req[r].ctxDone => failed
        /\ req' = [req EXCEPT ![r] =
                     IF failed THEN ReadFailed(h, entry)
                     ELSE IF Live(entry) THEN ServeHit(h, entry)
                     ELSE ReadMissed(h, entry)]
        /\ UNCHANGED <<now, duration, upstream, replies, clients, auth, cache, built>>

\* CacheGet as it would be were the entry's expiry renewed by a read that
\* finds it
CacheGetRenewing(r, failed) ==
    LET h == Step([req[r] EXCEPT !.reads = @ + 1], "check_cache")
        entry == cache[h.product]
    IN  /\ req[r].pc = "get"
        /\ req[r].ctxDone => failed
        /\ req' = [req EXCEPT ![r] =
                     IF failed THEN ReadFailed(h, entry)
                     ELSE IF Live(entry) /\ entry.val # EmptyText THEN ServeHit(h, entry)
                     ELSE ReadMissed(h, entry)]
        /\ cache' = IF ~failed /\ Live(entry) /\ entry.expires # 0
                    THEN [cache EXCEPT ![h.product].expires = now + duration]
                    ELSE cache
        /\ UNCHANGED <<now, duration, upstream, replies, clients, auth, built>>

\* DragonflyClient.Client.Get and the branches on its result
\* (forecast.go:33-59 and 255-281); failed: the call returned an error that
\* is not redis.Nil, as it does when timeoutCtx is done
CacheGet(r, failed) ==
    LET h == Step([req[r] EXCEPT !.reads = @ + 1], "check_cache")
        entry == cache[h.product]
    IN  /\ req[r].pc = "get"
        /\ req[r].ctxDone => failed
        /\ req' = [req EXCEPT ![r] =
                     IF failed THEN ReadFailed(h, entry)
                     ELSE IF Live(entry) /\ entry.val # EmptyText THEN ServeHit(h, entry)
                     ELSE ReadMissed(h, entry)]
        /\ UNCHANGED <<now, duration, upstream, replies, clients, auth, cache, built>>

PeriodCount(product) == IF IsSummary(product) THEN SummaryPeriodCount ELSE AllPeriods

\* AfterFetch as it would be were a failed fetch tried once more
AfterFetchRetrying(h, res) ==
    CASE res.kind = "err" ->
           IF h.fetches < 2 THEN Logged(h, <<"could not get forecast">>)
           ELSE ServeError(Logged([h EXCEPT !.fetchFailed = TRUE], <<"could not get forecast">>),
                           StatusInternalServerError,
                           <<"failed to get simplified forecast periods">>)
      [] res.kind = "panic" -> [h EXCEPT !.pc = "panic"]
      [] OTHER -> Step([h EXCEPT !.pc = "infer", !.periods = res.periods], "build_prompt")

\* AfterFetch as it would be were the adapter's error ignored
AfterFetchUnchecked(h, res) ==
    CASE res.kind = "err" ->
           Step([Logged([h EXCEPT !.fetchFailed = TRUE], <<"could not get forecast">>)
                    EXCEPT !.pc = "infer", !.periods = res.periods], "build_prompt")
      [] res.kind = "panic" -> [h EXCEPT !.pc = "panic"]
      [] OTHER -> Step([h EXCEPT !.pc = "infer", !.periods = res.periods], "build_prompt")

\* what the handler does with the adapter's result (forecast.go:61-70, 283-292)
AfterFetch(h, res) ==
    CASE res.kind = "err" ->
           ServeError(Logged([h EXCEPT !.fetchFailed = TRUE], <<"could not get forecast">>),
                      StatusInternalServerError,
                      <<"failed to get simplified forecast periods">>)
      [] res.kind = "panic" -> [h EXCEPT !.pc = "panic"]
      [] OTHER -> Step([h EXCEPT !.pc = "infer", !.periods = res.periods], "build_prompt")

\* NWSClient.GetSimplifiedForecastNPeriods; failed: GetForecast returned an
\* error.  The call takes no context (nws.go:73 httpClient.Get): it runs
\* the same whether timeoutCtx is done or not.
FetchSource(r, failed) ==
    LET h == Step([req[r] EXCEPT !.fetches = @ + 1], "fetch_source")
        fetch == [err |-> failed, periods |-> upstream]
    IN  /\ req[r].pc = "fetch"
        /\ req' = [req EXCEPT ![r] =
                     AfterFetch(h, GetSimplifiedForecastNPeriods(fetch, PeriodCount(h.product)))]
        /\ UNCHANGED <<now, duration, upstream, replies, clients, auth, cache, built>>

\* the product computed from the reply text: parse, join (Breakdown), stamp,
\* encode (forecast.go:174-188 and 411-437)
ParseReply(product, text) ==
    IF IsSummary(product) THEN UnmarshalSummary(text, ZeroForecastSummaryResponse)
    ELSE UnmarshalAnnotations(text, NilSlice)

BuildProduct(product, periods, text, t) ==
    IF IsSummary(product)
    THEN MarshalSummary([ParseReply(product, text).v EXCEPT !.LastUpdated = t])
    ELSE MarshalBreakdown([Periods |-> MakeSlice(JoinPeriods(periods, ParseReply(product, text).v.e)),
                           LastUpdated |-> t])

\* AfterInference as it would be were a reply that fails to parse cached and
\* served as it is
AfterInferenceCachingUnparsed(h, outcome) ==
    IF outcome.err
    THEN ServeError(h, StatusInternalServerError,
                    <<"failed to get", ProductName(h.product)>>)
    ELSE IF outcome.content = <<>> THEN [h EXCEPT !.pc = "panic"]
    ELSE LET text == outcome.content[1] IN
         IF ParseReply(h.product, text).err
         THEN [Step(h, "parse") EXCEPT !.pc = "set", !.stamp = now, !.out = text]
         ELSE [Step(Step(h, "parse"), IF IsSummary(h.product) THEN "stamp" ELSE "join")
                  EXCEPT !.pc = "set", !.stamp = now,
                         !.out = BuildProduct(h.product, h.periods, text, now)]

\* AfterInference as it would be were the error of the call not checked
\* before message.Content is read
AfterInferenceUnchecked(h, outcome) ==
    IF outcome.content = <<>> THEN [h EXCEPT !.pc = "panic"]
    ELSE LET text == outcome.content[1] IN
         IF ParseReply(h.product, text).err
         THEN ServeError(Step(h, "parse"), StatusInternalServerError,
                         <<"failed to unmarshal", ProductName(h.product)>>)
         ELSE [Step(Step(h, "parse"), IF IsSummary(h.product) THEN "stamp" ELSE "join")
                  EXCEPT !.pc = "set", !.stamp = now,
                         !.out = BuildProduct(h.product, h.periods, text, now)]

\* what the handler does with the outcome of the inference call
\* (forecast.go:164-197 and 401-446)
AfterInference(h, outcome) ==
    IF outcome.err
    THEN ServeError(h, StatusInternalServerError,
                    <<"failed to get", ProductName(h.product)>>)
    ELSE IF outcome.content = <<>> THEN [h EXCEPT !.pc = "panic"]
    ELSE LET text == outcome.content[1] IN
         IF ParseReply(h.product, text).err
         THEN ServeError(Step(h, "parse"), StatusInternalServerError,
                         <<"failed to unmarshal", ProductName(h.product)>>)
         ELSE [Step(Step(h, "parse"), IF IsSummary(h.product) THEN "stamp" ELSE "join")
                  EXCEPT !.pc = "set", !.stamp = now,
                         !.out = BuildProduct(h.product, h.periods, text, now)]

\* AnthropicClient.Messages.New(timeoutCtx, ...) and what follows it up to
\* the cache write
CallInference(r) ==
    /\ req[r].pc = "infer"
    /\ \E outcome \in InferenceOutcomes(req[r].product) :
          /\ req[r].ctxDone => outcome.err
          /\ req' = [req EXCEPT ![r] =
                       AfterInference(Step([req[r] EXCEPT !.infers = @ + 1, !.answer = <<outcome>>],
                                           "call_inference"), outcome)]
    /\ UNCHANGED <<now, duration, upstream, replies, clients, auth, cache, built>>

\* NewEntry as it would be were the key set only when it holds nothing
NewEntryIfAbsent(r, h) ==
    IF Live(cache[h.product]) THEN cache[h.product]
    ELSE [present |-> TRUE, val |-> h.out,
          expires |-> IF duration > 0 THEN now + duration ELSE 0,
          by |-> r, at |-> now]

\* redis SET key value [EX ttl]: go-redis sends no expiry for a duration
\* that is not positive
NewEntry(r, h) ==
    [present |-> TRUE, val |-> h.out,
     expires |-> IF duration > 0 THEN now + duration ELSE 0,
     by |-> r, at |-> now]

\* WriteFailed as it would be were the failure not logged
WriteFailedSilently(h) == [h EXCEPT !.wrote = "err"]

\* the write failed: logged and swallowed
WriteFailed(h) ==
    [Logged(h, <<"could not set", ProductName(h.product), "in cache">>) EXCEPT !.wrote = "err"]

WriteDone(h) == [h EXCEPT !.wrote = "ok"]

\* CacheSet as it would be were both handlers to write the Summary's key
CacheSetOneKey(r, failed) ==
    LET h == Step([req[r] EXCEPT !.writes = @ + 1], "write_cache")
    IN  /\ req[r].pc = "set"
        /\ req[r].ctxDone => failed
        /\ IF failed
           THEN /\ req' = [req EXCEPT ![r] = ServeOK(WriteFailed(h), h.out)]
                /\ UNCHANGED cache
           ELSE /\ req' = [req EXCEPT ![r] = ServeOK(WriteDone(h), h.out)]
                /\ cache' = [cache EXCEPT !["forecast-summary"] = NewEntry(r, h)]
        /\ UNCHANGED <<now, duration, upstream, replies, clients, auth, built>>

\* CacheSet as it would be were the response written before the cache
CacheSetAfterServing(r, failed) ==
    LET h == Step(ServeOK([req[r] EXCEPT !.writes = @ + 1], req[r].out), "write_cache")
    IN  /\ req[r].pc = "set"
        /\ req[r].ctxDone => failed
        /\ IF failed
           THEN /\ req' = [req EXCEPT ![r] = WriteFailed(h)]
                /\ UNCHANGED cache
           ELSE /\ req' = [req EXCEPT ![r] = WriteDone(h)]
                /\ cache' = [cache EXCEPT ![h.product] = NewEntry(r, h)]
        /\ UNCHANGED <<now, duration, upstream, replies, clients, auth, built>>

\* DragonflyClient.Client.Set, then the response of the miss path
\* (forecast.go:199-206 and 448-455); failed: Set returned an error, as it
\* does when timeoutCtx is done
CacheSet(r, failed) ==
    LET h == Step([req[r] EXCEPT !.writes = @ + 1], "write_cache")
    IN  /\ req[r].pc = "set"
        /\ req[r].ctxDone => failed
        /\ IF failed
           THEN /\ req' = [req EXCEPT ![r] = ServeOK(WriteFailed(h), h.out)]
                /\ UNCHANGED cache
           ELSE /\ req' = [req EXCEPT ![r] = ServeOK(WriteDone(h), h.out)]
                /\ cache' = [cache EXCEPT ![h.product] = NewEntry(r, h)]
        /\ UNCHANGED <<now, duration, upstream, replies, clients, auth, built>>

\* time passes
Tick ==
    /\ now < MaxTime
    /\ now' = now + 1
    /\ UNCHANGED <<duration, upstream, replies, clients, auth, cache, req, built>>

Next ==
    \/ \E r \in Requests, p \in Products : Arrive(r, p)
    \/ \E r \in Requests, failed \in BOOLEAN : CacheGet(r, failed)
    \/ \E r \in Requests, failed \in BOOLEAN : FetchSource(r, failed)
    \/ \E r \in Requests : CallInference(r)
    \/ \E r \in Requests, failed \in BOOLEAN : CacheSet(r, failed)
    \/ Tick

Spec == Init /\ [][Next]_vars

SpecJoin == InitJoin /\ [][Next]_vars

\* One request to a server started with or without authentication, with
\* every list of configured keys.
InitAuth ==
    /\ now = 1
    /\ built = NotBuilt
    /\ auth \in {AuthDisabled} \cup {[enabled |-> TRUE, keys |-> k] : k \in APIKeyLists}
    /\ req = [r \in Requests |-> Idle]
    /\ replies = [p \in Products |-> ReplyTexts(p)]
    /\ clients = 1
    /\ duration = 1
    /\ upstream = <<pTonight, pSunday, pSundayNight, pSundayAgain>>
    /\ cache = [p \in Products |-> NoEntry]

NextAuth ==
    \/ Next
    \/ \E r \in Requests, p \in Products, x \in XAPIKeyHeaders : AuthenticationMiddleware(r, p, x)

SpecAuth == InitAuth /\ [][NextAuth]_vars

\* Requests whose context may become done at any point of the handler.
InitCancel ==
    /\ now = 1
    /\ built = NotBuilt
    /\ auth = AuthDisabled
    /\ req = [r \in Requests |-> Idle]
    /\ replies = [p \in Products |-> ReplyTexts(p)]
    /\ clients = NumRequests
    /\ duration = 1
    /\ upstream = <<pTonight, pSunday, pSundayNight, pSundayAgain>>
    /\ cache = [p \in Products |-> NoEntry]

NextCancel ==
    \/ Next
    \/ \E r \in Requests : Cancel(r)

SpecCancel == InitCancel /\ [][NextCancel]_vars

\* Requests to a server started without authentication or with one key.
InitServe ==
    /\ now = 1 /\ built = NotBuilt
    /\ auth \in {AuthDisabled, [enabled |-> TRUE, keys |-> <<"k1">>]}
    /\ req = [r \in Requests |-> Idle]
    /\ replies = [p \in Products |-> ReplyTexts(p)]
    /\ clients = NumRequests
    /\ duration = 1
    /\ upstream = <<pTonight, pSunday, pSundayNight, pSundayAgain>>
    /\ cache = [p \in Products |-> NoEntry]

SpecServe == InitServe /\ [][NextAuth]_vars

\* strings buildFinalPrompt can be given: empty, one piece, several pieces
\* with a line break, and text that looks like the delimiters
PromptTexts == { <<>>, <<"summarize">>, <<"annotate", NL, "each period">> }

ExampleTexts == { <<>>, <<"[{\"name\":\"Tonight\"}]">>, <<"</example>", "input: ">> }

InputDataTexts == { <<>>, <<"null">>, <<"[{\"name\":\"Sunday\"}]">> }

MultiShots == [Input : ExampleTexts, Output : ExampleTexts]

\* the slices of at most MaxExamples examples (nil and empty alike: length 0)
MultiShotLists == UNION { [1..n -> MultiShots] : n \in 0..MaxExamples }

\* buildFinalPrompt called up to MaxCalls times with the same arguments,
\* for every choice of arguments
InitPrompt ==
    /\ now = 1 /\ auth = AuthDisabled /\ duration = 1 /\ clients = 0
    /\ req = [r \in Requests |-> Idle]
    /\ replies = [p \in Products |-> ReplyTexts(p)]
    /\ upstream = <<>>
    /\ cache = [p \in Products |-> NoEntry]
    /\ \E prompt \in PromptTexts, ms \in MultiShotLists, inputData \in InputDataTexts :
          built = [prompt |-> prompt, ms |-> ms, inputData |-> inputData, results |-> <<>>]

BuildFinalPrompt ==
    /\ Len(built.results) < MaxCalls
    /\ built' = [built EXCEPT !.results =
                   Append(@, buildFinalPrompt(built.prompt, built.ms, built.inputData))]
    /\ UNCHANGED <<now, duration, upstream, replies, clients, auth, cache, req>>

NextPrompt == BuildFinalPrompt

SpecPrompt == InitPrompt /\ [][NextPrompt]_vars

(***************************************************************************)
(* What the requests of a state went through                               *)
(***************************************************************************)
Returned(r) == req[r].pc = "done"

\* the request read the cache and was served the entry
IsHit(r) == req[r].got.res = "val"

\* the inference call returned a message with a text block
Answered(r) == req[r].answer # <<>> /\ ~req[r].answer[1].err /\ req[r].answer[1].content # <<>>

ReplyText(r) == req[r].answer[1].content[1]

\* source fetch, inference call and parse all succeeded
MissComputed(r) ==
    /\ req[r].path = "miss"
    /\ req[r].pc \in {"set", "done"}
    /\ ~req[r].fetchFailed
    /\ Answered(r)
    /\ ~ParseReply(req[r].product, ReplyText(r)).err

\* what the request met on the miss path
MissInputs(r) == <<req[r].product, req[r].fetchFailed, req[r].answer, req[r].stamp>>

\* what the client got, and what the handler did to get it
Outcome(r) ==
    <<req[r].pc, req[r].status, req[r].title, req[r].contentType, req[r].body,
      req[r].responses, req[r].fetches, req[r].infers, req[r].writes>>

GetFailedLine(r) == <<"could not get", ProductName(req[r].product), "from cache">>
SetFailedLine(r) == <<"could not set", ProductName(req[r].product), "in cache">>
DecodeFailedLine(r) == <<"could not unmarshal", ProductName(req[r].product), "from cache">>

C2_ReadErrorTakesTheMissPath ==
    /\ \A r \in Requests :
          req[r].got.res = "err"
          => /\ req[r].path = "miss"
             /\ req[r].log # <<>> /\ req[r].log[1] = GetFailedLine(r)
             /\ req[r].steps[1] = "check_cache"
             /\ req[r].pc # "fetch" => (req[r].fetches = 1 /\ req[r].steps[2] = "fetch_source")
    /\ \A r \in Requests, m \in Requests :
          ( /\ req[r].got.res = "err" /\ req[m].got.res = "nil"
            /\ req[r].pc \in {"done", "panic"} /\ req[m].pc \in {"done", "panic"}
            /\ MissInputs(r) = MissInputs(m) )
          => Outcome(r) = Outcome(m)

\* two requests met the same inputs, one after a failed read, one after
\* key-not-found, and both were answered 200
C2_Witness ==
    \E r \in Requests, m \in Requests :
        /\ req[r].got.res = "err" /\ req[m].got.res = "nil"
        /\ MissInputs(r) = MissInputs(m)
        /\ req[r].status = StatusOK /\ req[m].status = StatusOK

(***************************************************************************)
(* C3                                                                      *)
(***************************************************************************)
\* C3: when source fetch, inference and parse have succeeded, the request
\* returns 200 with the computed product whether or not the cache write
\* fails; a failed write is logged; and when both the read and the write
\* failed, the request logged exactly two lines, the read's and the write's.
C3_WriteFailureIsSwallowed ==
    \A r \in Requests :
        (MissComputed(r) /\ Returned(r))
        => /\ req[r].status = StatusOK
           /\ req[r].contentType = "application/json"
           /\ req[r].responses = 1
           /\ req[r].body = BuildProduct(req[r].product, req[r].periods, ReplyText(r), req[r].stamp)
           /\ req[r].wrote \in {"ok", "err"}
           /\ req[r].log = (IF req[r].got.res = "err" THEN <<GetFailedLine(r)>> ELSE <<>>)
                            \o (IF req[r].wrote = "err" THEN <<SetFailedLine(r)>> ELSE <<>>)
           /\ (req[r].got.res = "err" /\ req[r].wrote = "err") => Len(req[r].log) = 2

\* a request whose cache read and cache write both failed was answered 200
C3_Witness ==
    \E r \in Requests :
        /\ MissComputed(r) /\ Returned(r)
        /\ req[r].got.res = "err" /\ req[r].wrote = "err"
        /\ req[r].status = StatusOK

(***************************************************************************)
(* C10                                                                     *)
(***************************************************************************)
\* C10: a failed source fetch ends the request with a 500 error response;
\* the fetch was made once, the inference client was not called, nothing
\* was written to the cache and no product was served.
C10_SourceFailureIsFatal ==
    \A r \in Requests :
        req[r].fetchFailed
        => /\ Returned(r)
           /\ req[r].status = StatusInternalServerError
           /\ req[r].title = <<"failed to get simplified forecast periods">>
           /\ req[r].responses = 1
           /\ req[r].body = EmptyText
           /\ req[r].fetches = 1
           /\ req[r].infers = 0
           /\ req[r].writes = 0
           /\ req[r].steps[Len(req[r].steps)] = "serve_error"

\* a request whose source fetch failed has returned
C10_Witness ==
    \E r \in Requests : req[r].fetchFailed /\ Returned(r) /\ req[r].path = "miss"

(***************************************************************************)
(* C4                                                                      *)
(***************************************************************************)
\* the product json.Unmarshal leaves behind when it stored nothing
ZeroSummaryBody ==
    JObj([summary |-> JStr(""), icon |-> JStr(""),
          last_updated |-> JStr("0001-01-01T00:00:00Z")])

ZeroBreakdownBody ==
    JObj([periods |-> JNull, last_updated |-> JStr("0001-01-01T00:00:00Z")])

\* the hit's cached value did not decode into the product
HitDecodeFailed(r) == IsHit(r) /\ HitDecode(req[r].product, req[r].got.entry.val).err

WithoutTimestamp(doc) ==
    JObj([key \in DOMAIN doc.f \ {"last_updated"} |-> doc.f[key]])

\* C5: the body served on a hit equals the value stored by the miss that
\* created the entry, and equals, apart from last_updated, the body of every
\* miss-path request that computed its product from the same source result
\* and the same inference reply (whenever it did so).
C5_HitEqualsMissModuloTimestamp ==
    \A r \in Requests :
        (IsHit(r) /\ req[r].got.entry.by \in Requests)
        => LET w == req[r].got.entry.by IN
           /\ req[r].body = req[r].got.entry.val
           /\ \A m \in Requests :
                 ( /\ MissComputed(m)
                   /\ req[m].product = req[r].product
                   /\ req[m].periods = req[w].periods
                   /\ ReplyText(m) = ReplyText(w) )
                 => WithoutTimestamp(req[r].body) = WithoutTimestamp(req[m].out)

\* a hit was served at a later time than the miss that created the entry
\* stamped its product
C5_Witness ==
    \E r \in Requests :
        /\ IsHit(r) /\ req[r].got.entry.by \in Requests
        /\ req[r].got.at > req[req[r].got.entry.by].stamp
        /\ Returned(r)

(***************************************************************************)
(* C6                                                                      *)
(***************************************************************************)
\* C6 as stated: an entry written by a miss at time T with the configured
\* cache duration is never served as a hit by a cache read at a time
\* >= T + duration.
C6_NoHitAtOrAfterExpiry ==
    \A r \in Requests :
        (IsHit(r) /\ req[r].got.entry.by \in Requests)
        => req[r].got.at < req[r].got.entry.at + duration

(***************************************************************************)
(* C9                                                                      *)
(***************************************************************************)
\* the reply is not a JSON document of the product's shape
WrongShape(product, text) ==
    \/ ~IsJSON(text)
    \/ text.k # (IF IsSummary(product) THEN "obj" ELSE "arr")

\* C9 as stated: an inference reply that is not JSON of the product's shape
\* (an object for Summary, an array for Breakdown) ends the request with a
\* 500 whose title differs from that of a failed inference call, and no
\* product is served.
C9_MalformedReplyIsFatal ==
    \A r \in Requests :
        (Answered(r) /\ WrongShape(req[r].product, ReplyText(r)))
        => /\ Returned(r)
           /\ req[r].status = StatusInternalServerError
           /\ req[r].title = <<"failed to unmarshal", ProductName(req[r].product)>>
           /\ req[r].title # <<"failed to get", ProductName(req[r].product)>>
           /\ req[r].body = EmptyText
           /\ req[r].writes = 0

(***************************************************************************)
(* C7 and C8: the join as the Breakdown response shows it                  *)
(***************************************************************************)
\* a Breakdown request that computed its product
BreakdownComputed(r) == ~IsSummary(req[r].product) /\ MissComputed(r) /\ Returned(r)

\* the periods of a Breakdown response body
BodyPeriods(body) ==
    UnmarshalBreakdown(body, ZeroGetForecastPeriodsInformationResponse).v.Periods.e

\* the annotations the request's reply decoded into
Annotations(r) == ParseReply(req[r].product, ReplyText(r)).v.e

\* the entry carries the period's authoritative fields
SameAuthoritative(e, period) ==
    /\ e.DetailedForecast = period.DetailedForecast
    /\ e.ShortForecast = period.ShortForecast
    /\ e.StartTime = period.StartTime
    /\ e.EndTime = period.EndTime
    /\ e.Temperature = period.Temperature
    /\ e.WindSpeed = period.WindSpeed
    /\ e.WindDirection = period.WindDirection

EntryOf(e, period) == e.Name = period.Name /\ SameAuthoritative(e, period)

RECURSIVE FollowsSource(_, _, _)
\* the entries can be assigned to periods from[from..] without going back
FollowsSource(entries, periods, from) ==
    IF entries = <<>> THEN TRUE
    ELSE LET at == { i \in from..Len(periods) : EntryOf(Head(entries), periods[i]) }
         IN  at # {} /\ FollowsSource(Tail(entries), periods,
                                      CHOOSE i \in at : \A j \in at : i <= j)

\* some annotation carries the period's name
Covered(period, fpi) == \E j \in 1..Len(fpi) : fpi[j].Name = period.Name

\* C7 as stated: for every period list P and annotation list A the join
\* output is no longer than P, follows P's order, and each entry carries the
\* authoritative fields of the period of P with its name.
C7_JoinBoundedOrderedAuthoritative ==
    \A r \in Requests :
        BreakdownComputed(r)
        => LET entries == BodyPeriods(req[r].body) IN
           /\ Len(entries) <= Len(req[r].periods)
           /\ FollowsSource(entries, req[r].periods, 1)
           /\ \A n \in 1..Len(entries) :
                 \E i \in 1..Len(req[r].periods) : EntryOf(entries[n], req[r].periods[i])

\* C8 as stated: a period whose name equals no annotation's name has no
\* entry in the 200 response (none with empty derived fields either: every
\* entry is the join of a period with an annotation of exactly its name),
\* and when the annotations name k of the source's periods the response
\* holds exactly the k entries of those periods, in the source's order.
C8_ExactlyTheCoveredPeriods ==
    \A r \in Requests :
        BreakdownComputed(r)
        => LET entries == BodyPeriods(req[r].body)
               P == req[r].periods
               A == Annotations(r)
           IN  /\ req[r].status = StatusOK
               /\ \A i \in 1..Len(P) :
                     ~Covered(P[i], A) => \A n \in 1..Len(entries) : entries[n].Name # P[i].Name
               /\ \A n \in 1..Len(entries) :
                     \E i \in 1..Len(P), j \in 1..Len(A) :
                        /\ P[i].Name = A[j].Name
                        /\ entries[n] = JoinForecastPeriodsInformation(A[j], P[i])
               /\ FollowsSource(entries, P, 1)
               /\ Len(entries) = Cardinality({i \in 1..Len(P) : Covered(P[i], A)})

(***************************************************************************)
(* C11                                                                     *)
(***************************************************************************)
\* the inference call was made and returned an error
InferenceFailed(r) == req[r].answer # <<>> /\ req[r].answer[1].err

\* C11: a failed inference call ends the request with a 500 error response
\* (title "failed to get <product>", no product body); the call was made
\* once and nothing was written to the cache.
C11_InferenceFailureIsFatal ==
    \A r \in Requests :
        InferenceFailed(r)
        => /\ Returned(r)
           /\ req[r].status = StatusInternalServerError
           /\ req[r].contentType = "application/problem+json"
           /\ req[r].title = <<"failed to get", ProductName(req[r].product)>>
           /\ req[r].responses = 1
           /\ req[r].body = EmptyText
           /\ req[r].infers = 1
           /\ req[r].writes = 0
           /\ req[r].steps[Len(req[r].steps)] = "serve_error"

\* a request whose inference call failed has returned
C11_Witness ==
    \E r \in Requests : InferenceFailed(r) /\ Returned(r) /\ req[r].fetches = 1

(***************************************************************************)
(* C12                                                                     *)
(***************************************************************************)
\* the handler's goroutine panicked: net/http recovers the panic and closes
\* the connection without a response
Panicked(r) == req[r].pc = "panic"

\* C12 as stated: every request ends with exactly one response, a 200 with
\* Content-Type application/json or a 4xx/5xx problem response; no request
\* ends without one, whatever the cache holds, the source returns or the
\* inference service replies.
C12_ExactlyOneResponse ==
    \A r \in Requests :
        /\ req[r].responses <= 1
        /\ ~Panicked(r)
        /\ Returned(r)
           => /\ req[r].responses = 1
              /\ \/ req[r].status = StatusOK /\ req[r].contentType = "application/json"
                 \/ req[r].status \in 400..599 /\ req[r].contentType = "application/problem+json"

(***************************************************************************)
(* C13                                                                     *)
(***************************************************************************)
\* the request carried no X-API-Key header, or one equal to no configured key
Unauthenticated(r) ==
    \/ req[r].header.given = <<>>
    \/ \A i \in 1..Len(auth.keys) : auth.keys[i] # req[r].header.given[1]

\* the handler was not invoked for the request
HandlerNotInvoked(r) ==
    /\ req[r].steps \in {<<>>, <<"serve_error">>}
    /\ req[r].reads = 0 /\ req[r].fetches = 0 /\ req[r].infers = 0 /\ req[r].writes = 0

\* C13 as stated: with authentication enabled, a request whose X-API-Key
\* header is missing or equals none of the configured keys gets a 401
\* problem response and the handler is not invoked; a request whose header
\* equals a configured key is handed to the handler.
C13_UnauthenticatedGets401 ==
    \A r \in Requests :
        (auth.enabled /\ req[r].header.checked)
        => IF Unauthenticated(r)
           THEN /\ Returned(r)
                /\ req[r].status = StatusUnauthorized
                /\ req[r].contentType = "application/problem+json"
                /\ req[r].title = <<"invalid api key">>
                /\ req[r].responses = 1
                /\ HandlerNotInvoked(r)
           ELSE /\ req[r].status # StatusUnauthorized
                /\ req[r].pc # "get" => req[r].steps[1] = "check_cache"

(***************************************************************************)
(* C14                                                                     *)
(***************************************************************************)
\* request r makes its cache write and answers in this step
Writes(r) == req[r].pc = "set" /\ req'[r].pc = "done"

\* C14: requests that met a miss run without coordination.  Whenever one of
\* them makes its cache write it has made its own source fetch and its own
\* inference call, it answers with the product it computed itself, it
\* changes no other request, and a write that succeeds leaves under the key
\* exactly its own complete value, whatever the key held; the key changes
\* in no other way, so it always holds the value of the last write.
C14_LastWriteWins ==
    [][ /\ \A r \in Requests :
              Writes(r)
              => /\ req[r].fetches = 1 /\ req[r].infers = 1 /\ req'[r].writes = 1
                 /\ req'[r].status = StatusOK
                 /\ req'[r].body = req[r].out
                 /\ req'[r].body = BuildProduct(req[r].product, req[r].periods,
                                                ReplyText(r), req[r].stamp)
                 /\ \A m \in Requests \ {r} : req'[m] = req[m]
                 /\ req'[r].wrote = "ok"
                    => /\ cache'[req[r].product].val = req[r].out
                       /\ cache'[req[r].product].by = r
                       /\ ~HitDecode(req[r].product, cache'[req[r].product].val).err
                 /\ req'[r].wrote = "err" => cache' = cache
        /\ \A p \in Products :
              cache'[p] # cache[p]
              => \E r \in Requests : Writes(r) /\ req[r].product = p /\ req'[r].wrote = "ok"
      ]_vars

\* two requests for one product both met a miss before either had written,
\* computed different products, both wrote, and the key holds the value of
\* one of them
C14_Witness ==
    \E r \in Requests, m \in Requests :
        /\ r # m /\ req[r].product = req[m].product
        /\ req[r].got.res = "nil" /\ req[m].got.res = "nil"
        /\ ~req[r].got.entry.present /\ ~req[m].got.entry.present
        /\ req[r].wrote = "ok" /\ req[m].wrote = "ok"
        /\ Returned(r) /\ Returned(m)
        /\ req[r].body # req[m].body
        /\ cache[req[r].product].by = m
        /\ cache[req[r].product].val = req[m].body

(***************************************************************************)
(* C15                                                                     *)
(***************************************************************************)
\* request r comes back from the blocking call it was in at pc = at
Leaves(r, at) == req[r].pc = at /\ req'[r].pc # at

\* C15 as stated: once the request's context is done, every downstream call
\* still pending or not yet started ends with the context's error at once:
\* the cache read and the cache write fail, no source fetch and no inference
\* call yields a result, and nothing is written to the cache.
C15_DoneContextStopsEveryCall ==
    [][ \A r \in Requests :
            req[r].ctxDone
            => /\ Leaves(r, "get") => req'[r].got.res = "err"
               /\ Leaves(r, "fetch") => req'[r].fetchFailed
               /\ Leaves(r, "infer") => req'[r].answer[1].err
               /\ Leaves(r, "set") => (req'[r].wrote = "err" /\ cache' = cache)
      ]_vars

(***************************************************************************)
(* C16                                                                     *)
(***************************************************************************)
\* the steps the claim names (the cache check and the time stamp are not
\* among them)
IsNamedStep(name) == name \notin {"check_cache", "stamp"}

MissSteps(r) == SelectSeq(req[r].steps, IsNamedStep)

IsPrefix(s, t) == Len(s) <= Len(t) /\ s = SubSeq(t, 1, Len(s))

\* the order the claim gives: the response before the cache write
ServeThenWrite(product) ==
    <<"fetch_source", "build_prompt", "call_inference", "parse">>
      \o (IF IsSummary(product) THEN <<>> ELSE <<"join">>)
      \o <<"serve", "write_cache">>

\* the order with the cache write before the response
WriteThenServe(product) ==
    <<"fetch_source", "build_prompt", "call_inference", "parse">>
      \o (IF IsSummary(product) THEN <<>> ELSE <<"join">>)
      \o <<"write_cache", "serve">>

\* the steps are a beginning of `order`, or one cut short by a failure of
\* its last step and ended by the error response
FollowsOrder(r, order) ==
    \/ IsPrefix(MissSteps(r), order)
    \/ /\ MissSteps(r) # <<>>
       /\ MissSteps(r)[Len(MissSteps(r))] = "serve_error"
       /\ IsPrefix(SubSeq(MissSteps(r), 1, Len(MissSteps(r)) - 1), order)
       /\ \/ req[r].fetchFailed /\ Len(MissSteps(r)) = 2
          \/ InferenceFailed(r) /\ Len(MissSteps(r)) = 4
          \/ Answered(r) /\ ParseReply(req[r].product, ReplyText(r)).err /\ Len(MissSteps(r)) = 5

\* C16 as stated: on the miss path the steps occur in the order
\* FETCH_SOURCE, BUILD_PROMPT, CALL_INFERENCE, PARSE, JOIN (Breakdown only),
\* SERVE, WRITE_CACHE, each after the previous one succeeded.
C16_ServedBeforeCacheWrite ==
    \A r \in Requests : req[r].path = "miss" => FollowsOrder(r, ServeThenWrite(req[r].product))

\* C16 (amended): on the miss path the steps occur in the order
\* FETCH_SOURCE, BUILD_PROMPT, CALL_INFERENCE, PARSE, JOIN (Breakdown only),
\* WRITE_CACHE, SERVE: each step up to the cache write starts only after
\* the previous one succeeded (a failure is answered with an error response
\* and ends the request), and the response is served after the cache write
\* was attempted, whether it succeeded or failed.
C16_CacheWriteBeforeServe ==
    \A r \in Requests :
        req[r].path = "miss"
        => /\ FollowsOrder(r, WriteThenServe(req[r].product))
           /\ Returned(r) /\ req[r].status = StatusOK
              => /\ MissSteps(r) = WriteThenServe(req[r].product)
                 /\ req[r].wrote \in {"ok", "err"}

\* a Breakdown request went through every step and was served although its
\* cache write had failed
C16_Witness ==
    \E r \in Requests :
        /\ ~IsSummary(req[r].product)
        /\ req[r].path = "miss" /\ Returned(r)
        /\ req[r].wrote = "err"
        /\ MissSteps(r) = WriteThenServe(req[r].product)

(***************************************************************************)
(* C17                                                                     *)
(***************************************************************************)
\* request r takes a step
Acts(r) == req'[r] # req[r]

\* C17: a step of a request leaves the entry of the other product's key as
\* it was and every other request as it was; what the request reads from
\* the cache is what its own product's key holds; under every interleaving
\* of requests for the two products.
C17_ProductsShareNoState ==
    [][ \A r \in Requests :
            Acts(r)
            => /\ \A p \in Products \ {req'[r].product} : cache'[p] = cache[p]
               /\ \A m \in Requests \ {r} : req'[m] = req[m]
               /\ Leaves(r, "get")
                  => /\ req'[r].got.entry \in {cache[req[r].product], NoEntry}
                     /\ IsHit(r)' => req'[r].body = HitBody(req[r].product, cache[req[r].product].val)
               /\ (Leaves(r, "set") /\ req'[r].wrote = "ok")
                  => cache'[req[r].product].val = req[r].out
      ]_vars

\* a Summary request and a Breakdown request ran at the same time, both
\* wrote, and each key holds its own request's product
C17_Witness ==
    \E r \in Requests, m \in Requests :
        /\ IsSummary(req[r].product) /\ ~IsSummary(req[m].product)
        /\ r \notin req[m].after /\ m \notin req[r].after
        /\ Returned(r) /\ Returned(m)
        /\ req[r].wrote = "ok" /\ req[m].wrote = "ok"
        /\ cache["forecast-summary"].by = r /\ cache["forecast-summary"].val = req[r].body
        /\ cache["forecast-periods-information"].by = m
        /\ cache["forecast-periods-information"].val = req[m].body

(***************************************************************************)
(* C18                                                                     *)
(***************************************************************************)
\* C18: the step that serves a hit leaves the cache as it was (value and
\* expiry of every entry) and ends the request without a cache write; the
\* expiry of an entry is the one its miss-path write gave it, so a hit is
\* served only before that time, however many reads came before.
C18_HitLeavesCacheAlone ==
    [][ \A r \in Requests :
            (Leaves(r, "get") /\ IsHit(r)')
            => /\ cache' = cache
               /\ Returned(r)'
               /\ req'[r].writes = 0
               /\ LET entry == req'[r].got.entry IN
                  (entry.by \in Requests /\ duration > 0)
                  => /\ entry.expires = entry.at + duration
                     /\ req'[r].got.at < entry.at + duration
      ]_vars

\* an entry written by a miss was served as a hit and has since expired at
\* the time its write gave it
C18_Witness ==
    \E r \in Requests :
        /\ IsHit(r) /\ Returned(r) /\ req[r].writes = 0
        /\ req[r].got.entry.by \in Requests
        /\ cache[req[r].product] = req[r].got.entry
        /\ ~Live(cache[req[r].product])
        /\ now = req[r].got.entry.at + duration

(***************************************************************************)
(* C19                                                                     *)
(***************************************************************************)
\* C19: a request makes at most one cache read, one source fetch, one
\* inference call and one cache write; a call that failed was made exactly
\* once, and a failed fetch or inference call ended the request.
C19_NoRetries ==
    \A r \in Requests :
        /\ req[r].reads <= 1 /\ req[r].fetches <= 1
        /\ req[r].infers <= 1 /\ req[r].writes <= 1
        /\ req[r].got.res = "err" => req[r].reads = 1
        /\ req[r].fetchFailed => (req[r].fetches = 1 /\ Returned(r))
        /\ InferenceFailed(r) => (req[r].infers = 1 /\ Returned(r))
        /\ req[r].wrote = "err" => (req[r].writes = 1 /\ Returned(r))
        /\ Len(SelectSeq(req[r].steps, IsNamedStep)) <= 7

\* requests have returned after a failed cache read and a failed source
\* fetch, and after a failed cache read and a failed cache write
C19_Witness ==
    /\ \E r \in Requests :
          req[r].got.res = "err" /\ req[r].fetchFailed /\ Returned(r) /\ req[r].fetches = 1
    /\ \E r \in Requests :
          req[r].got.res = "err" /\ req[r].wrote = "err" /\ Returned(r) /\ req[r].writes = 1

(***************************************************************************)
(* C20                                                                     *)
(***************************************************************************)
\* the request's call of the adapter got a document from the source
FetchSucceeded(r) == req[r].fetches = 1 /\ ~req[r].fetchFailed /\ req[r].pc # "fetch"

\* the handler's goroutine panicked inside the adapter, before any inference call
PanickedInAdapter(r) == Panicked(r) /\ req[r].fetches = 1 /\ req[r].infers = 0

\* C20: when the fetch succeeds the adapter hands back the source's periods
\* in provider order, all of them for n = -1 and the first n of them for
\* 0 < n <= the number available; for a larger n the call still completes
\* (clamped, or with a result or an error) instead of indexing out of range.
C20_AdapterNeverIndexesOutOfRange ==
    \A r \in Requests :
        FetchSucceeded(r) =>
            LET n == PeriodCount(req[r].product)
                all == forecastResponeToSimplifiedForecastPeriods(upstream)
            IN  /\ ~PanickedInAdapter(r)
                /\ n = AllPeriods => req[r].periods = all
                /\ (0 < n /\ n <= Len(all)) => req[r].periods = SubSeq(all, 1, n)

(***************************************************************************)
(* C21                                                                     *)
(***************************************************************************)
\* the entry was written by one of the handlers
WrittenByHandler(entry) == entry.present /\ entry.by \in Requests

\* C21 as stated: every cache write of a handler carries a strictly
\* positive TTL, whatever the configured cache duration: no entry a handler
\* wrote is without an expiry, and its expiry lies after its write.
C21_EveryWriteExpires ==
    \A p \in Products :
        WrittenByHandler(cache[p])
        => /\ duration > 0
           /\ cache[p].expires > cache[p].at

(***************************************************************************)
(* C22                                                                     *)
(***************************************************************************)
RECURSIVE Flatten(_)
\* the concatenation of a sequence of strings
Flatten(parts) == IF parts = <<>> THEN <<>> ELSE Head(parts) \o Flatten(Tail(parts))

\* the layout the prompt has: the instruction, a blank line, the examples
\* in their order between <examples> and </examples>, each between
\* <example> and </example> with its input and output labelled, a blank
\* line, the labelled payload
PromptLayout(prompt, ms, inputData) ==
    Flatten(<<prompt, <<NL, NL>>, <<"<examples>">>>>
            \o [i \in 1..Len(ms) |->
                  Flatten(<< <<"<example>">>, <<"input: ">>, ms[i].Input,
                             <<NL>>, <<"output: ">>, ms[i].Output, <<"</example>">> >>)]
            \o << <<"</examples>">>, <<NL, NL>>, <<"input: ">>, inputData >>)

SerializedProduct(product, text) ==
    /\ IsJSON(text) /\ text.k = "obj"
    /\ ~HitDecode(product, text).err
    /\ HitBody(product, text) = text

\* the request ended without a 200 response
EndedWithoutProduct(r) == (Returned(r) /\ req[r].status # StatusOK) \/ Panicked(r)

\* C23: the cache changes only in the write of a request that completed
\* source fetch, inference call and parse (and join) without an error and
\* that answers 200 with the value it wrote; a request that ends with an
\* error response (500 or 401) has written nothing; every value stored
\* under a product key is the serialized product of the request that
\* stored it.
C23_OnlyFinishedProductsAreCached ==
    [][ /\ \A p \in Products :
              cache'[p] # cache[p]
              => \E r \in Requests :
                    /\ Leaves(r, "set") /\ req[r].product = p
                    /\ MissComputed(r)' /\ Returned(r)'
                    /\ req'[r].status = StatusOK /\ req'[r].responses = 1
                    /\ req'[r].body = cache'[p].val
                    /\ cache'[p].val = BuildProduct(p, req[r].periods, ReplyText(r), req[r].stamp)
                    /\ SerializedProduct(p, cache'[p].val)
        /\ \A r \in Requests :
              EndedWithoutProduct(r)' => (req'[r].writes = 0 /\ req'[r].wrote = "none")
        /\ \A r \in Requests :
              req'[r].writes = 1 => MissComputed(r)'
      ]_vars

\* one request was answered 401 and wrote nothing, and the cache holds the
\* product another request stored and was answered with
C23_Witness ==
    \E r, q \in Requests :
        /\ Returned(r) /\ req[r].status = StatusUnauthorized /\ req[r].writes = 0
        /\ Returned(q) /\ req[q].status = StatusOK /\ req[q].wrote = "ok"
        /\ cache[req[q].product].by = q
        /\ cache[req[q].product].val = req[q].body

(***************************************************************************)
(* C24                                                                     *)
(***************************************************************************)
\* the pairs <<period index, annotation index>>, periods first, each
\* period's annotations in list order
IndexPairs(P, A) ==
    [k \in 1..(Len(P) * Len(A)) |-> <<((k - 1) \div Len(A)) + 1, ((k - 1) % Len(A)) + 1>>]

\* the pairs whose period and annotation carry the same name, in that order
MatchingPairs(P, A) ==
    LET SameName(pair) == P[pair[1]].Name = A[pair[2]].Name
    IN  SelectSeq(IndexPairs(P, A), SameName)

\* C24: the periods of a Breakdown response are exactly, for each source
\* period in source order, one joined entry for every annotation of the
\* period's name, in annotation-list order: a period matched by k
\* annotations contributes k entries, and periods of one name are each
\* joined with the same annotations.
C24_JoinIsEveryMatchingPair ==
    \A r \in Requests :
        BreakdownComputed(r)
        => LET entries == BodyPeriods(req[r].body)
               P == req[r].periods
               A == Annotations(r)
               pairs == MatchingPairs(P, A)
           IN  /\ Len(entries) = Len(pairs)
               /\ \A n \in 1..Len(pairs) :
                     entries[n] = JoinForecastPeriodsInformation(A[pairs[n][2]], P[pairs[n][1]])
               /\ \A i \in 1..Len(P) :
                     Cardinality({n \in 1..Len(pairs) : pairs[n][1] = i})
                        = Cardinality({j \in 1..Len(A) : A[j].Name = P[i].Name})

\* a response in which two periods of one name were each joined with the
\* two annotations of that name
C24_Witness ==
    \E r \in Requests :
        /\ BreakdownComputed(r)
        /\ \E i, j \in 1..Len(req[r].periods) :
              i < j /\ req[r].periods[i].Name = req[r].periods[j].Name
              /\ Cardinality({a \in 1..Len(Annotations(r)) :
                                 Annotations(r)[a].Name = req[r].periods[i].Name}) = 2
        /\ Len(BodyPeriods(req[r].body)) > Len(req[r].periods)

(***************************************************************************)
(* C25                                                                     *)
(***************************************************************************)
\* the key of the request's product holds the empty string
HoldsEmpty(r) ==
    Live(cache[req[r].product]) /\ cache[req[r].product].val = EmptyText

\* the request's cache read returned the empty string without an error
ReadEmpty(r) == req[r].got.res = "empty"

\* C25: a cache read that succeeds and returns the empty string is a miss:
\* nothing is served from the cache and nothing is logged, the handler goes
\* on to the source fetch and through the miss path like any miss, and its
\* cache write replaces the empty entry with the product.
C25_EmptyValueIsAMiss ==
    [][ \A r \in Requests :
          /\ (Leaves(r, "get") /\ HoldsEmpty(r) /\ req'[r].got.res # "err")
             => /\ ReadEmpty(r)' /\ ~IsHit(r)'
                /\ req'[r].pc = "fetch" /\ req'[r].path = "miss"
                /\ req'[r].log = <<>>
                /\ req'[r].responses = 0 /\ req'[r].body = EmptyText
                /\ cache' = cache
          /\ (ReadEmpty(r) /\ Leaves(r, "fetch")) => req'[r].fetches = 1
          /\ (ReadEmpty(r) /\ Returned(r)')
             => /\ FollowsOrder(r, WriteThenServe(req[r].product))'
                /\ req'[r].status = StatusOK
                   => (MissComputed(r)' /\ MissSteps(r)' = WriteThenServe(req[r].product))
          /\ (ReadEmpty(r) /\ Leaves(r, "set") /\ req'[r].wrote = "ok")
             => /\ cache'[req[r].product].by = r
                /\ cache'[req[r].product].val = req[r].out
                /\ cache'[req[r].product].val # EmptyText
                /\ req'[r].body = req[r].out
      ]_vars

\* a request read the empty string, went through the miss path and left
\* its product under the key
C25_Witness ==
    \E r \in Requests :
        /\ ReadEmpty(r) /\ Returned(r) /\ req[r].status = StatusOK
        /\ req[r].wrote = "ok" /\ req[r].log = <<>>
        /\ cache[req[r].product].by = r
        /\ cache[req[r].product].val = req[r].body

====
